---- MODULE Spec2Model ----
(***************************************************************************)
(* duetbackup: mirror of a remote (RepRapFirmware) directory tree into a   *)
(* local directory.  The model covers the exclusion set (excludes.go), the *)
(* listing sort of the file manager client (rrffm/rrffm.go) and the        *)
(* recursive synchronisation engine (duetbackup.go).                       *)
(*                                                                         *)
(* Strings are sequences of one-character strings; a byte-wise comparison  *)
(* is obtained through Ord.  Local paths are sequences of path segments    *)
(* below the output directory given on the command line.                   *)
(***************************************************************************)
EXTENDS Integers, Sequences, FiniteSets, TLC

VARIABLES
    excls,        \* Excludes.excls: the stored exclusion prefixes
    arg,          \* input of the last pure operation that was applied
    ret,          \* its result
    remote,       \* remote tree: remote path segments -> node
    fs,           \* local tree: local path segments -> node
    removeLocal,  \* the -removeLocal flag
    clock,        \* wall clock of the local machine
    stack,        \* call stack of syncFolder, innermost frame first
    status,       \* "idle", "connected", "running", "ok", "error", or, after a
                  \* failed connect, "unavailable": the process has printed
                  \* "Duet currently not available" and ended with exit status 0
    run,          \* number of top-level SyncFolder invocations started
    log,          \* remote calls and local changes of the current invocation
    last          \* what the last step of the engine did

vars == <<excls, arg, ret, remote, fs, removeLocal, clock, stack, status, run, log, last>>

engineVars == <<remote, fs, removeLocal, clock, stack, status, run, log, last>>

-----------------------------------------------------------------------------
(* Strings *)

\* Byte value of the characters the model uses (ASCII).
Ord(c) ==
    CASE c = "%" -> 37
      [] c = "." -> 46
      [] c = "/" -> 47
      [] c = "0" -> 48
      [] c = ":" -> 58
      [] c = "a" -> 97
      [] c = "b" -> 98
      [] c = "c" -> 99
      [] c = "d" -> 100
      [] c = "e" -> 101
      [] c = "f" -> 102
      [] c = "g" -> 103
      [] c = "k" -> 107
      [] c = "o" -> 111
      [] c = "p" -> 112
      [] c = "s" -> 115
      [] c = "t" -> 116
      [] c = "u" -> 117
      [] c = "y" -> 121
      [] c = "z" -> 122

\* Go's < on strings: byte-wise lexicographic order.
RECURSIVE StrLess(_, _)
StrLess(s, t) ==
    IF t = <<>> THEN FALSE
    ELSE IF s = <<>> THEN TRUE
    ELSE IF Ord(Head(s)) # Ord(Head(t)) THEN Ord(Head(s)) < Ord(Head(t))
    ELSE StrLess(Tail(s), Tail(t))

\* strings.HasPrefix(s, prefix)
HasPrefix(s, prefix) ==
    /\ Len(s) >= Len(prefix)
    /\ SubSeq(s, 1, Len(prefix)) = prefix

\* strings.TrimSuffix(s, "/")
TrimSuffixSlash(s) ==
    IF Len(s) >= 1 /\ s[Len(s)] = "/" THEN SubSeq(s, 1, Len(s) - 1) ELSE s

\* As ReplaceMultiSlash, for the regular expression `//`: each pair of slashes
\* becomes one slash, from left to right.
RECURSIVE ReplaceDoubleSlash(_)
ReplaceDoubleSlash(s) ==
    IF s = <<>> THEN <<>>
    ELSE IF Len(s) >= 2 /\ s[1] = "/" /\ s[2] = "/"
    THEN <<"/">> \o ReplaceDoubleSlash(SubSeq(s, 3, Len(s)))
    ELSE <<Head(s)>> \o ReplaceDoubleSlash(Tail(s))

\* multiSlashRegex.ReplaceAllString(path, "/") with multiSlashRegex = `/{2,}`:
\* every maximal run of two or more slashes becomes one slash.
RECURSIVE ReplaceMultiSlash(_)
ReplaceMultiSlash(s) ==
    IF s = <<>> THEN <<>>
    ELSE IF Len(s) >= 2 /\ s[1] = "/" /\ s[2] = "/" THEN ReplaceMultiSlash(Tail(s))
    ELSE <<Head(s)>> \o ReplaceMultiSlash(Tail(s))

CleanPath(path) == TrimSuffixSlash(ReplaceMultiSlash(path))

-----------------------------------------------------------------------------
(* Excludes *)

ContainsEqualOnly(e, path) == \E i \in 1..Len(e) : e[i] = path

ContainsFirstOnly(e, path, i) == i <= Len(e) /\ HasPrefix(path, e[i])

\* Excludes.Contains: the loop over e.excls with its early return.
RECURSIVE ContainsFrom(_, _, _)
ContainsFrom(e, path, i) ==
    IF i > Len(e) THEN FALSE
    ELSE IF HasPrefix(path, e[i]) THEN TRUE
    ELSE ContainsFrom(e, path, i + 1)

Contains(e, path) == ContainsFrom(e, path, 1)

\* Excludes.Set: append the cleaned value.
ExcludesSet(e, value) == Append(e, CleanPath(value))

-----------------------------------------------------------------------------
(* rrffm: the listing returned by GetFilelist *)

typeDirectory == "d"

typeFile == "f"

\* file.IsDir
IsDir(f) == f.Type = typeDirectory

\* The less function handed to sort.SliceStable in getFileListRecursively.
LessNameOnly(x, y) == StrLess(x.Name, y.Name)

\* As Less, with the names in descending order.
LessNameDescending(x, y) ==
    IF IsDir(x) # IsDir(y) THEN IsDir(x) ELSE StrLess(y.Name, x.Name)

Less(x, y) ==
    IF x.Type = y.Type THEN StrLess(x.Name, y.Name)
    ELSE x.Type = typeDirectory

Swap(files, i, j) == [files EXCEPT ![i] = files[j], ![j] = files[i]]

\* sort.SliceStable on fewer than 20 elements is one insertion sort:
\*   for i := 1; i < n; i++ { for j := i; j > 0 && less(j, j-1); j-- { swap(j, j-1) } }
\* (indices from 1 here).
RECURSIVE InsertBack(_, _)
InsertBack(files, j) ==
    IF j > 1 /\ Less(files[j], files[j - 1])
    THEN InsertBack(Swap(files, j, j - 1), j - 1)
    ELSE files

RECURSIVE InsertionSort(_, _)
InsertionSort(files, i) ==
    IF i > Len(files) THEN files
    ELSE InsertionSort(InsertBack(files, i), i + 1)

SliceStable(files) == InsertionSort(files, 2)

-----------------------------------------------------------------------------
(* Paths and the two file trees *)

sysDir == <<"0", ":", "/", "s", "y", "s">>

dirMarker == <<".", "d", "u", "e", "t", "b", "a", "c", "k", "u", "p">>

EmptyTree == [x \in {} |-> x]

\* fmt.Sprintf("%s/%s", dir, name)
JoinRemote(dir, name) == dir \o <<"/">> \o name

\* filepath.Join(outDir, name) for a name that is one clean path segment
JoinLocal(outDir, name) == Append(outDir, name)

\* q is p or lies beneath p (local paths)
Under(p, q) == Len(q) >= Len(p) /\ SubSeq(q, 1, Len(p)) = p

Parent(p) == SubSeq(p, 1, Len(p) - 1)

LocalChildren(f, p) == {q \in DOMAIN f : Len(q) = Len(p) + 1 /\ Parent(q) = p}

\* The remote children of directory dir: the paths dir/name with a slash-free name.
NoSlash(s) == \A i \in 1..Len(s) : s[i] # "/"

RemoteChildren(r, dir) ==
    {q \in DOMAIN r : /\ Len(q) > Len(dir) + 1
                      /\ SubSeq(q, 1, Len(dir) + 1) = dir \o <<"/">>
                      /\ NoSlash(SubSeq(q, Len(dir) + 2, Len(q)))}

BaseName(dir, q) == SubSeq(q, Len(dir) + 2, Len(q))

\* The enumerations of a finite set: the sequences that hold each element once.
RECURSIVE Enumerations(_)
Enumerations(S) ==
    IF S = {} THEN {<<>>}
    ELSE UNION {{<<x>> \o e : e \in Enumerations(S \ {x})} : x \in S}

\* The rr_filelist response for dir, before sorting.  The order in which the
\* firmware reports the entries of a directory is the firmware's: order is a
\* sequence of paths of the card, and the entries of dir come in the order in
\* which order has them.
RawFiles(r, dir, order) ==
    LET ch == SelectSeq(order, LAMBDA q : q \in RemoteChildren(r, dir))
    IN [i \in 1..Len(ch) |->
            [Type |-> r[ch[i]].Type, Name |-> BaseName(dir, ch[i]), Date |-> r[ch[i]].Date]]

\* url.QueryEscape(s): letters, digits and "." stay; ":", "/" and "%" become
\* a percent sign and the two hex digits of the byte.
RECURSIVE QueryEscape(_)
QueryEscape(s) ==
    IF s = <<>> THEN <<>>
    ELSE (CASE Head(s) = ":" -> <<"%", "3", "A">>
            [] Head(s) = "/" -> <<"%", "2", "F">>
            [] Head(s) = "%" -> <<"%", "2", "5">>
            [] OTHER -> <<Head(s)>>) \o QueryEscape(Tail(s))

\* What the firmware makes of a query value: a percent sign and two hex
\* digits are the byte they name, every other character is itself.
RECURSIVE QueryUnescape(_)
QueryUnescape(s) ==
    IF s = <<>> THEN <<>>
    ELSE IF Head(s) = "%" /\ Len(s) >= 3
    THEN (CASE SubSeq(s, 2, 3) = <<"3", "A">> -> <<":">>
            [] SubSeq(s, 2, 3) = <<"2", "F">> -> <<"/">>
            [] SubSeq(s, 2, 3) = <<"2", "5">> -> <<"%">>
            [] OTHER -> SubSeq(s, 1, 3)) \o QueryUnescape(SubSeq(s, 4, Len(s)))
    ELSE <<Head(s)>> \o QueryUnescape(Tail(s))

\* The firmware answers rr_filelist with at most PageSize entries, those from
\* index first on, and with the index of the next entry to ask for in "next"
\* (0 when the listing is complete); "dir" is the directory of the request,
\* as the firmware decoded it.
PageSize == 2

ServerPage(entries, dir, first) ==
    LET upto == IF first + PageSize < Len(entries) THEN first + PageSize ELSE Len(entries)
    IN [dir |-> QueryUnescape(dir),
        files |-> SubSeq(entries, first + 1, upto),
        next |-> IF upto < Len(entries) THEN upto ELSE 0]

\* fmt.Sprintf(fileListURL, rrffm.baseURL, dir) with fileListURL =
\* "%s/rr_filelist?dir=%s": the request names the directory and no first
\* index, so the firmware answers from index 0.
FileListURL(dir, first) == [dir |-> dir, first |-> 0]

\* As Unmarshal, with the "dir" of the response not taken over.
UnmarshalNoDir(body) == [Dir |-> <<>>, Files |-> body.files, next |-> 0]

\* json.Unmarshal(body, &fl): Dir and Files are exported fields and are set;
\* next is not exported, encoding/json leaves it at its zero value.
Unmarshal(body) == [Dir |-> body.dir, Files |-> body.files, next |-> 0]

\* rrffm.getFileListRecursively(dir, first) against a directory whose entries
\* are `entries`; requests: the first index of each request the firmware saw.
RECURSIVE getFileListRecursively(_, _, _)
getFileListRecursively(entries, dir, first) ==
    LET url == FileListURL(dir, first)
        fl == Unmarshal(ServerPage(entries, url.dir, url.first))
        moreFiles == IF fl.next > 0
                     THEN getFileListRecursively(entries, dir, fl.next)
                     ELSE [Files |-> <<>>, requests |-> <<>>]
    IN [Dir |-> fl.Dir,
        Files |-> SliceStable(fl.Files \o moreFiles.Files),
        requests |-> <<url.first>> \o moreFiles.requests]

\* rrffm.GetFilelist: the listing, with Files sorted directories first and by name.
GetFilelist(r, dir, order) ==
    LET escaped == QueryEscape(dir)
        fl == getFileListRecursively(RawFiles(r, QueryUnescape(escaped), order), escaped, 0)
    IN [Dir |-> fl.Dir, Files |-> fl.Files]

-----------------------------------------------------------------------------
(* Local file system operations *)

MaxTime == 1

Times == 0..MaxTime

DirNode(t) == [kind |-> "d", mtime |-> t, data |-> 0]

FileNode(t, d) == [kind |-> "f", mtime |-> t, data |-> d]

\* The content of a file of which nf.Write has written a part, not all, of
\* the response body.  (Content 0 is the empty file, 1 the bytes of a remote
\* file, 2 bytes that are on no remote file.)
PartData == 3

Put(f, p, node) == (p :> node) @@ f

\* Adding or removing an entry of a directory sets the directory's mtime.
TouchParent(f, p, now) ==
    IF Len(p) > 0 /\ Parent(p) \in DOMAIN f
    THEN [f EXCEPT ![Parent(p)].mtime = now]
    ELSE f

\* os.MkdirAll(p, 0755) where nothing exists at p: p and its missing ancestors.
MkdirAll(f, p, now) ==
    LET missing == {SubSeq(p, 1, n) : n \in 0..Len(p)} \ DOMAIN f
        made == [q \in missing |-> DirNode(now)] @@ f
    IN IF \E q \in missing : Len(q) > 0 /\ Parent(q) \in DOMAIN f
       THEN LET top == CHOOSE q \in missing : Len(q) > 0 /\ Parent(q) \in DOMAIN f
            IN [made EXCEPT ![Parent(top)].mtime = now]
       ELSE made

\* os.Create(p) can succeed: the parent is a directory and p is not one.
CanCreate(f, p) ==
    /\ Len(p) > 0
    /\ Parent(p) \in DOMAIN f
    /\ f[Parent(p)].kind = "d"
    /\ (p \in DOMAIN f => f[p].kind = "f")

\* As Create, without creating anything.
CreateNothing(f, p, now) == f

\* os.Create(p): create or truncate; the file is empty and its mtime is now.
Create(f, p, now) ==
    IF p \in DOMAIN f
    THEN [f EXCEPT ![p] = FileNode(now, 0)]
    ELSE TouchParent(Put(f, p, FileNode(now, 0)), p, now)

\* os.RemoveAll(p): p and everything beneath it.
RemoveAll(f, p, now) ==
    TouchParent([q \in {x \in DOMAIN f : ~Under(p, x)} |-> f[q]], p, now)

\* What os.RemoveAll(p) may have removed when it returns an error: it removes
\* what it can and returns the first error it met, so p itself is still
\* there, and of what lies beneath p any part is gone, a directory only with
\* everything beneath it.
PartialRemovals(f, p) ==
    {gone \in SUBSET {q \in DOMAIN f : Under(p, q) /\ q # p} :
        \A q \in gone : \A x \in DOMAIN f : Under(q, x) => x \in gone}

\* The directories that are left when os.RemoveAll has removed gone and that
\* have lost an entry by it.
Losing(f, gone) == {q \in DOMAIN f \ gone : \E x \in gone : Parent(x) = q}

\* The tree after a failed os.RemoveAll that has removed gone: a directory
\* that has lost an entry has as mtime the time of its last unlink, at[q].
RemovePartly(f, gone, at) ==
    [q \in DOMAIN f \ gone |->
        IF q \in Losing(f, gone) THEN [f[q] EXCEPT !.mtime = at[q]] ELSE f[q]]

\* The latest of the times of at, and now when there is none.
Latest(at, now) ==
    IF DOMAIN at = {} THEN now
    ELSE CHOOSE t \in {at[q] : q \in DOMAIN at} : \A q \in DOMAIN at : at[q] <= t

\* ioutil.ReadDir(p): the entries of p sorted by file name.
RECURSIVE SortNames(_)
SortNames(S) ==
    IF S = {} THEN <<>>
    ELSE LET m == CHOOSE x \in S : \A y \in S \ {x} : StrLess(x, y)
         IN <<m>> \o SortNames(S \ {m})

ReadDir(f, p) ==
    LET names == SortNames({q[Len(q)] : q \in LocalChildren(f, p)})
    IN [i \in 1..Len(names) |->
            [Name |-> names[i], IsDir |-> f[JoinLocal(p, names[i])].kind = "d"]]

-----------------------------------------------------------------------------
(* The engine's decisions *)

\* updateLocalFiles: fi == nil || fi.ModTime().Before(file.Date())
NeedsDownloadOrEqual(f, fileName, date) ==
    fileName \notin DOMAIN f \/ f[fileName].mtime <= date

NeedsDownload(f, fileName, date) ==
    fileName \notin DOMAIN f \/ f[fileName].mtime < date

\* isManagedDirectory(basePath, f); statErr: os.Stat of the marker fails with
\* an error other than "does not exist".
IsManagedAnyDirectory(f, basePath, ent, statErr) == ent.IsDir

IsManagedOnError(f, basePath, ent, statErr) ==
    ent.IsDir /\ (statErr \/ JoinLocal(JoinLocal(basePath, ent.Name), dirMarker) \in DOMAIN f)

isManagedDirectory(f, basePath, ent, statErr) ==
    IF ~ent.IsDir THEN FALSE
    ELSE LET markerFile == JoinLocal(JoinLocal(basePath, ent.Name), dirMarker)
         IN IF statErr THEN FALSE
            ELSE IF markerFile \notin DOMAIN f THEN FALSE
            ELSE TRUE

\* removeDeletedFiles: the "pseudo hash-set of known remote filenames"
ExistingFiles(fl) == {fl.Files[i].Name : i \in 1..Len(fl.Files)}

\* removeDeletedFiles: the local entry is skipped (continue) rather than removed.
\*   if !isManagedDirectory(outDir, f) || f.Name() == dirMarker { continue }
SkipsRemoval(f, outDir, ent, statErr) ==
    ~isManagedDirectory(f, outDir, ent, statErr) \/ ent.Name = dirMarker

-----------------------------------------------------------------------------
(* The engine: SyncFolder and the functions it calls, one action per call of *)
(* the remote file manager or the local file system.  A frame of the stack   *)
(* is one activation of SyncFolder; an error return unwinds every frame.     *)

Frame(folder, outDir) ==
    [folder |-> folder, outDir |-> outDir, pc |-> "enter",
     fl |-> [Dir |-> <<>>, Files |-> <<>>], idx |-> 1, files |-> <<>>]

Ev(op, rpath, lpath) == [op |-> op, rpath |-> rpath, lpath |-> lpath]

Step(op, outcome, rpath, lpath, managed) ==
    [op |-> op, outcome |-> outcome, rpath |-> rpath, lpath |-> lpath, managed |-> managed]

NoStep == Step("none", "none", <<>>, <<>>, FALSE)

NoResult == [op |-> "none"]

RECURSIVE NextIdx(_, _, _)
\* The first index from i on whose entry is a directory (wantDir) or is none.
NextIdx(files, i, wantDir) ==
    IF i > Len(files) THEN i
    ELSE IF IsDir(files[i]) = wantDir THEN i
    ELSE NextIdx(files, i + 1, wantDir)

\* As AfterUpdate, with removeDeletedFiles called whatever the flag says.
AfterUpdateAlwaysRemoves(fr) == [fr EXCEPT !.pc = "readdir", !.idx = 1]

\* As AfterUpdate, without the call of removeDeletedFiles.
AfterUpdateNoRemoval(fr) ==
    [fr EXCEPT !.pc = "descend", !.idx = NextIdx(fr.fl.Files, 1, TRUE)]

\* SyncFolder after updateLocalFiles: removeDeletedFiles if asked for, then the subdirectories.
AfterUpdate(fr) ==
    IF removeLocal THEN [fr EXCEPT !.pc = "readdir", !.idx = 1]
    ELSE [fr EXCEPT !.pc = "descend", !.idx = NextIdx(fr.fl.Files, 1, TRUE)]

\* updateLocalFiles: the loop over fl.Files skips directories.
UpdateFrom(fr, i) ==
    LET j == NextIdx(fr.fl.Files, i, FALSE)
    IN IF j > Len(fr.fl.Files) THEN AfterUpdate(fr)
       ELSE [fr EXCEPT !.pc = "update", !.idx = j]

\* removeDeletedFiles: the loop over the local entries.
PruneFrom(fr, i) ==
    IF i > Len(fr.files)
    THEN [fr EXCEPT !.pc = "descend", !.idx = NextIdx(fr.fl.Files, 1, TRUE)]
    ELSE [fr EXCEPT !.pc = "prune", !.idx = i]

Top == Head(stack)

Running(pc) == status = "running" /\ stack # <<>> /\ Top.pc = pc

\* The frame goes on.
Continue(fr) ==
    /\ stack' = <<fr>> \o Tail(stack)
    /\ status' = "running"

\* As Fail, with the error dropped by the caller: the caller goes on.
FailDropped ==
    /\ stack' = Tail(stack)
    /\ status' = IF Tail(stack) = <<>> THEN "ok" ELSE "running"

\* return err: every caller returns it in turn.
Fail ==
    /\ stack' = <<>>
    /\ status' = "error"

\* return nil
ReturnNil ==
    /\ stack' = Tail(stack)
    /\ status' = IF Tail(stack) = <<>> THEN "ok" ELSE "running"

Runs == {1, 2}

\* As Connect, with the failure ending the process by log.Fatal(err), exit
\* status 1, as an earlier revision of main did (status "fatal").
ConnectFatal ==
    /\ status = "idle"
    /\ \E o \in {"ok", "connect_err"} :
       /\ last' = Step("connect", o, <<>>, <<>>, FALSE)
       /\ status' = IF o = "ok" THEN "connected" ELSE "fatal"
    /\ UNCHANGED <<excls, arg, ret, remote, fs, removeLocal, clock, stack, run, log>>

\* main of the command: rfm.Connect(password) and what main does when it fails:
\*   log.Println("Duet currently not available"); os.Exit(0)
\* status "unavailable" is that end of the process: the message has been
\* printed and the exit status is 0.  Nothing of main after it is reached.
Connect ==
    /\ status = "idle"
    /\ \E o \in {"ok", "connect_err"} :
       /\ last' = Step("connect", o, <<>>, <<>>, FALSE)
       /\ status' = IF o = "ok" THEN "connected" ELSE "unavailable"
    /\ UNCHANGED <<excls, arg, ret, remote, fs, removeLocal, clock, stack, run, log>>

\* main: db.SyncFolder(CleanPath(dirToBackup), absPath, excls, removeLocal)
SyncFolderCall ==
    /\ status \in {"connected", "ok"}
    /\ run + 1 \in Runs
    /\ run' = run + 1
    /\ stack' = <<Frame(CleanPath(sysDir), <<>>)>>
    /\ status' = "running"
    /\ log' = <<>>
    /\ last' = NoStep
    /\ UNCHANGED <<excls, arg, ret, remote, fs, removeLocal, clock>>

\* SyncFolder, up to and including the call of rfm.Filelist.
SyncFolderEnter ==
    /\ Running("enter")
    /\ IF Contains(excls, Top.folder)
       THEN /\ ReturnNil
            /\ log' = Append(log, Ev("excluded", Top.folder, Top.outDir))
            /\ last' = Step("enter", "excluded", Top.folder, Top.outDir, FALSE)
       ELSE \E o \in {"ok", "list_err"} :
            /\ log' = Append(log, Ev("list", Top.folder, Top.outDir))
            /\ last' = Step("enter", o, Top.folder, Top.outDir, FALSE)
            /\ IF o = "list_err" THEN Fail
               ELSE \E order \in Enumerations(RemoteChildren(remote, Top.folder)) :
                       Continue([Top EXCEPT !.fl = GetFilelist(remote, Top.folder, order),
                                            !.pc = "ensure"])
    /\ UNCHANGED <<excls, arg, ret, remote, fs, removeLocal, clock, run>>

\* ensureOutDirExists(outDir).  A failure of filepath.Abs has the effect of stat_err.
\* os.MkdirAll is called at the time clock and os.Create of the marker at a
\* time t2 that is not earlier: each leaves its own time stamps.
EnsureOutDirExists ==
    /\ Running("ensure")
    /\ LET path == Top.outDir
           markerFile == JoinLocal(path, dirMarker)
           absent == path \notin DOMAIN fs
           fs1 == IF absent THEN MkdirAll(fs, path, clock) ELSE fs
           log1 == IF absent THEN Append(log, Ev("mkdir", Top.folder, path)) ELSE log
       IN \E o \in {"ok", "stat_err", "mkdir_err", "marker_err"} :
          /\ o = "mkdir_err" => absent
          /\ o = "ok" => CanCreate(fs1, markerFile)
          /\ last' = Step("ensure", o, Top.folder, path, FALSE)
          /\ CASE o \in {"stat_err", "mkdir_err"} ->
                    /\ Fail
                    /\ UNCHANGED <<fs, log>>
                    /\ clock' = clock
               [] o = "marker_err" ->
                    /\ Fail
                    /\ fs' = fs1
                    /\ log' = log1
                    /\ clock' = clock
               [] o = "ok" ->
                    \E t2 \in clock..MaxTime :
                       /\ fs' = Create(fs1, markerFile, t2)
                       /\ log' = Append(log1, Ev("marker", Top.folder, markerFile))
                       /\ Continue(UpdateFrom(Top, 1))
                       /\ clock' = t2
    /\ UNCHANGED <<excls, arg, ret, remote, removeLocal, run>>

\* One iteration of the loop of updateLocalFiles, for a file entry.
\* os.Create is called at the time clock and nf.Write at a time t2 that is not
\* earlier.  os.Create stamps the file and, when the file is new, its
\* directory; nf.Write stamps the file when it writes bytes.  A failed
\* nf.Write has written no byte or a part of the body.
UpdateLocalFile ==
    /\ Running("update")
    /\ LET file == Top.fl.Files[Top.idx]
           remoteFilename == JoinRemote(Top.fl.Dir, file.Name)
           fileName == JoinLocal(Top.outDir, file.Name)
           \* the response body: the file's bytes, or what the firmware
           \* answers when it has no such file
           body == IF remoteFilename \in DOMAIN remote
                   THEN remote[remoteFilename].Data ELSE 0
           fetched == Append(log, Ev("fetch", remoteFilename, fileName))
           written == Append(fetched, Ev("write", remoteFilename, fileName))
           next == UpdateFrom(Top, Top.idx + 1)
       IN IF Contains(excls, remoteFilename)
          THEN /\ last' = Step("update", "excluded", remoteFilename, fileName, FALSE)
               /\ Continue(next)
               /\ UNCHANGED <<fs, log, clock>>
          ELSE \E o \in {"ok", "stat_err", "download_err", "create_err", "write_err",
                         "chtimes_err"} :
               /\ IF o = "stat_err"
                  THEN /\ last' = Step("update", o, remoteFilename, fileName, FALSE)
                       /\ Fail
                       /\ UNCHANGED <<fs, log, clock>>
                  ELSE IF ~NeedsDownload(fs, fileName, file.Date)
                  THEN /\ o = "ok"
                       /\ last' = Step("update", "uptodate", remoteFilename, fileName, FALSE)
                       /\ Continue(next)
                       /\ UNCHANGED <<fs, log, clock>>
                  ELSE /\ o \in {"ok", "write_err", "chtimes_err"} => CanCreate(fs, fileName)
                       /\ last' = Step("update", o, remoteFilename, fileName, FALSE)
                       /\ CASE o \in {"download_err", "create_err"} ->
                                 /\ Fail
                                 /\ fs' = fs
                                 /\ log' = fetched
                                 /\ clock' = clock
                            [] o = "write_err" ->
                                 /\ Fail
                                 /\ log' = written
                                 /\ \/ /\ fs' = Create(fs, fileName, clock)
                                       /\ clock' = clock
                                    \/ /\ body # 0
                                       /\ \E t2 \in clock..MaxTime :
                                             /\ fs' = [Create(fs, fileName, clock) EXCEPT
                                                          ![fileName] = FileNode(t2, PartData)]
                                             /\ clock' = t2
                            [] o = "chtimes_err" ->
                                 \* the result of os.Chtimes is not looked at;
                                 \* a write of no bytes leaves the time of os.Create
                                 /\ Continue(next)
                                 /\ log' = written
                                 /\ \E t2 \in clock..MaxTime :
                                       /\ body = 0 => t2 = clock
                                       /\ fs' = [Create(fs, fileName, clock) EXCEPT
                                                    ![fileName] = FileNode(t2, body)]
                                       /\ clock' = t2
                            [] o = "ok" ->
                                 \* os.Chtimes replaces the time of nf.Write
                                 /\ Continue(next)
                                 /\ log' = written
                                 /\ \E t2 \in clock..MaxTime :
                                       /\ fs' = [Create(fs, fileName, clock) EXCEPT
                                                    ![fileName] = FileNode(file.Date, body)]
                                       /\ clock' = t2
    /\ UNCHANGED <<excls, arg, ret, remote, removeLocal, run>>

\* removeDeletedFiles: ioutil.ReadDir(outDir)
ReadLocalDir ==
    /\ Running("readdir")
    /\ \E o \in {"ok", "readdir_err"} :
       /\ last' = Step("readdir", o, Top.folder, Top.outDir, FALSE)
       /\ IF o = "readdir_err" THEN Fail
          ELSE Continue(PruneFrom([Top EXCEPT !.files = ReadDir(fs, Top.outDir)], 1))
    /\ UNCHANGED <<excls, arg, ret, remote, fs, removeLocal, clock, run, log>>

\* removeDeletedFiles: one iteration of the loop over the local entries.
\* os.RemoveAll unlinks from the time clock on: the directory of the target
\* has the time of the last unlink, and when os.RemoveAll fails each directory
\* that has lost an entry has the time of its own last unlink.
PruneChild ==
    /\ Running("prune")
    /\ LET ent == Top.files[Top.idx]
           target == JoinLocal(Top.outDir, ent.Name)
           next == PruneFrom(Top, Top.idx + 1)
       IN IF ent.Name \in ExistingFiles(Top.fl)
          THEN /\ last' = Step("prune", "exists", Top.folder, target, FALSE)
               /\ Continue(next)
               /\ UNCHANGED <<fs, log, clock>>
          ELSE \E statErr \in BOOLEAN, o \in {"ok", "remove_err"} :
               /\ statErr => ent.IsDir
               /\ LET managed == isManagedDirectory(fs, Top.outDir, ent, statErr)
                      stat == IF statErr THEN "stat_err" ELSE "ok"
                  IN IF SkipsRemoval(fs, Top.outDir, ent, statErr)
                     THEN /\ o = "ok"
                          /\ last' = Step("skip", stat, Top.folder, target, managed)
                          /\ Continue(next)
                          /\ UNCHANGED <<fs, log, clock>>
                     ELSE /\ last' = Step("remove", o, Top.folder, target, managed)
                          /\ IF o = "remove_err"
                             THEN /\ Fail
                                  /\ \E gone \in PartialRemovals(fs, target) :
                                     \E at \in [Losing(fs, gone) -> clock..MaxTime] :
                                        /\ fs' = RemovePartly(fs, gone, at)
                                        /\ clock' = Latest(at, clock)
                                        /\ log' = IF gone = {} THEN log
                                                  ELSE Append(log, Ev("remove", Top.folder, target))
                             ELSE /\ Continue(next)
                                  /\ \E t2 \in clock..MaxTime :
                                        /\ fs' = RemoveAll(fs, target, t2)
                                        /\ clock' = t2
                                  /\ log' = Append(log, Ev("remove", Top.folder, target))
    /\ UNCHANGED <<excls, arg, ret, remote, removeLocal, run>>

\* SyncFolder: the recursive call for the next subdirectory.
Descend ==
    /\ Running("descend")
    /\ Top.idx <= Len(Top.fl.Files)
    /\ LET file == Top.fl.Files[Top.idx]
           remoteFilename == JoinRemote(Top.fl.Dir, file.Name)
           fileName == JoinLocal(Top.outDir, file.Name)
           caller == [Top EXCEPT !.idx = NextIdx(Top.fl.Files, Top.idx + 1, TRUE)]
       IN /\ stack' = <<Frame(remoteFilename, fileName), caller>> \o Tail(stack)
          /\ last' = Step("descend", "ok", remoteFilename, fileName, FALSE)
    /\ UNCHANGED <<excls, arg, ret, remote, fs, removeLocal, clock, status, run, log>>

\* SyncFolder: return nil after the last subdirectory.
Return ==
    /\ Running("descend")
    /\ Top.idx > Len(Top.fl.Files)
    /\ ReturnNil
    /\ last' = Step("return", "ok", Top.folder, Top.outDir, FALSE)
    /\ UNCHANGED <<excls, arg, ret, remote, fs, removeLocal, clock, run, log>>

\* Time passes on the local machine.
Tick ==
    /\ clock < MaxTime
    /\ status \in {"idle", "connected", "running"} \/ (status = "ok" /\ run + 1 \in Runs)
    /\ clock' = clock + 1
    /\ UNCHANGED <<excls, arg, ret, remote, fs, removeLocal, stack, status, run, log, last>>

-----------------------------------------------------------------------------
(* Initial states of the engine: remote trees, local trees, exclusions *)

RemoteDir == [Type |-> typeDirectory, Date |-> 0, Data |-> 0]

RemoteFile(t) == [Type |-> typeFile, Date |-> t, Data |-> 1]

Root == CleanPath(sysDir)

\* Remote trees below the root: an optional file a, an optional directory d
\* with an optional file d/a and an optional directory d/e; the tree whose
\* only entry is a file with the name of the marker; the tree of two sibling
\* directories d and f with a file each; and the tree of three entries, the
\* empty directories d, f and g.
RemoteTrees ==
    LET a == JoinRemote(Root, <<"a">>)
        d == JoinRemote(Root, <<"d">>)
        da == JoinRemote(d, <<"a">>)
        de == JoinRemote(d, <<"e">>)
        As == {EmptyTree} \cup {a :> RemoteFile(t) : t \in {1, 2}}
        Ds == {EmptyTree, d :> RemoteDir,
               (d :> RemoteDir) @@ (da :> RemoteFile(1)),
               (d :> RemoteDir) @@ (da :> RemoteFile(2)) @@ (de :> RemoteDir)}
        f == JoinRemote(Root, <<"f">>)
        g == JoinRemote(Root, <<"g">>)
    IN {x @@ y : x \in As, y \in Ds}
       \cup {JoinRemote(Root, dirMarker) :> RemoteFile(2)}
       \cup {(d :> RemoteDir) @@ (da :> RemoteFile(1))
                @@ (f :> RemoteDir) @@ (JoinRemote(f, <<"a">>) :> RemoteFile(1))}
       \cup {(d :> RemoteDir) @@ (f :> RemoteDir) @@ (g :> RemoteDir)}

\* Local trees: the output directory is absent, or it exists with or without
\* the marker, an optional file a, an optional directory d without marker,
\* and at most one entry o the remote does not have: a file, a directory
\* without marker, or a directory with marker that holds one without; and
\* the tree in which a is a directory.
LocalTrees ==
    LET Ms == {EmptyTree, <<dirMarker>> :> FileNode(0, 0)}
        As == {EmptyTree} \cup {<<<<"a">>>> :> FileNode(t, 2) : t \in {1, 2}}
        Ds == {EmptyTree, <<<<"d">>>> :> DirNode(0)}
        o == <<<<"o">>>>
        Os == {EmptyTree,
               o :> FileNode(1, 2),
               (o :> DirNode(0)) @@ (JoinLocal(o, <<"a">>) :> FileNode(1, 2)),
               (o :> DirNode(0)) @@ (JoinLocal(o, dirMarker) :> FileNode(0, 0))
                   @@ (JoinLocal(o, <<"u">>) :> DirNode(0))}
    IN {EmptyTree} \cup
       {(<<>> :> DirNode(0)) @@ m @@ x @@ y @@ z : m \in Ms, x \in As, y \in Ds, z \in Os}
       \cup {(<<>> :> DirNode(0)) @@ (<<<<"a">>>> :> DirNode(0))}

\* The -exclude arguments of the command line.
ExcludeArgs ==
    {<<>>,
     <<JoinRemote(Root, <<"d">>) \o <<"/">>>>,
     <<JoinRemote(Root, <<"a">>)>>,
     <<<<"/">>>>}

RECURSIVE SetAll(_, _)
\* flag.Var(&excls, "exclude", ...): one call of Set for each argument
SetAll(e, args) ==
    IF args = <<>> THEN e ELSE SetAll(ExcludesSet(e, Head(args)), Tail(args))

Init ==
    /\ remote \in RemoteTrees
    /\ fs \in LocalTrees
    /\ excls \in {SetAll(<<>>, a) : a \in ExcludeArgs}
    /\ removeLocal \in BOOLEAN
    /\ clock = 0
    /\ stack = <<>>
    /\ status = "idle"
    /\ run = 0
    /\ log = <<>>
    /\ last = NoStep
    /\ arg = <<>>
    /\ ret = NoResult

Next ==
    \/ Connect
    \/ SyncFolderCall
    \/ SyncFolderEnter
    \/ EnsureOutDirExists
    \/ UpdateLocalFile
    \/ ReadLocalDir
    \/ PruneChild
    \/ Descend
    \/ Return
    \/ Tick

Spec == Init /\ [][Next]_vars

-----------------------------------------------------------------------------
(* The exclusion set on its own: Set and Contains applied to every short   *)
(* string over a slash and one letter; Contains ends the experiment.        *)

MaxLen == 3

MaxExcludes == 2

RECURSIVE StringsOfLen(_)
StringsOfLen(n) ==
    IF n = 0 THEN {<<>>}
    ELSE {Append(s, c) : s \in StringsOfLen(n - 1), c \in {"/", "a"}}

Strings == UNION {StringsOfLen(n) : n \in 0..MaxLen}

EngineIdle ==
    /\ remote = EmptyTree
    /\ fs = EmptyTree
    /\ removeLocal = FALSE
    /\ clock = 0
    /\ stack = <<>>
    /\ status = "idle"
    /\ run = 0
    /\ log = <<>>
    /\ last = NoStep

InitExcl ==
    /\ excls = <<>>
    /\ arg = <<>>
    /\ ret = NoResult
    /\ EngineIdle

\* excls.Set(value)
DoSet ==
    /\ Len(excls) < MaxExcludes
    /\ \E value \in Strings :
       /\ excls' = ExcludesSet(excls, value)
       /\ arg' = value
       /\ ret' = [op |-> "Set"]
    /\ UNCHANGED engineVars

\* excls.Contains(path)
DoContains ==
    /\ ret.op # "Contains"
    /\ \E path \in Strings :
       /\ arg' = path
       /\ ret' = [op |-> "Contains", val |-> Contains(excls, path)]
    /\ UNCHANGED <<excls, engineVars>>

NextExcl == DoSet \/ DoContains

SpecExcl == InitExcl /\ [][NextExcl]_vars

\* path begins with prefix, character by character
StartsWith(path, prefix) ==
    /\ Len(prefix) <= Len(path)
    /\ \A k \in 1..Len(prefix) : path[k] = prefix[k]

\* C9: Contains(path) is true exactly when path starts with at least one of
\* the stored prefixes, compared character by character with no regard to
\* path segments; with nothing stored it is false, and a stored empty prefix
\* makes it true for every path.
C9_ContainsIffPrefix ==
    ret.op = "Contains" =>
        /\ ret.val = (\E i \in 1..Len(excls) : StartsWith(arg, excls[i]))
        /\ excls = <<>> => ~ret.val
        /\ (\E i \in 1..Len(excls) : excls[i] = <<>>) => ret.val

\* The stored prefix /a matches the path /aa, which is no path beneath /a.
C9_Witness ==
    /\ ret.op = "Contains"
    /\ ret.val
    /\ excls = <<<<"a">>, <<"/", "a">>>>
    /\ arg = <<"/", "a", "a">>

-----------------------------------------------------------------------------
(* The listing sort on its own: every response of up to MaxEntries entries  *)
(* whose (kind, name) pairs are distinct.                                   *)

MaxEntries == 4

Entry(type, name) == [Type |-> type, Name |-> name, Date |-> 0]

AllEntries == {Entry(t, n) : t \in {typeDirectory, typeFile}, n \in {<<"a">>, <<"b">>, <<"z">>}}

RECURSIVE Responses(_)
Responses(n) ==
    IF n = 0 THEN {<<>>}
    ELSE LET shorter == Responses(n - 1)
         IN shorter \cup
            {Append(r, e) : r \in {x \in shorter : Len(x) = n - 1},
                            e \in AllEntries} 

Distinct(r) == \A i, j \in 1..Len(r) : i # j => r[i] # r[j]

InitSort ==
    /\ arg \in {r \in Responses(MaxEntries) : Distinct(r)}
    /\ ret = NoResult
    /\ excls = <<>>
    /\ EngineIdle

\* getFileListRecursively on a response that has no further page: the sort.
DoSort ==
    /\ ret = NoResult
    /\ ret' = [op |-> "Filelist", val |-> SliceStable(arg)]
    /\ UNCHANGED <<arg, excls, engineVars>>

NextSort == DoSort

SpecSort == InitSort /\ [][NextSort]_vars

\* C10: the listing holds the entries of the response, all directories before
\* all files and, within each kind, in ascending order of name; the response
\* file b, dir a, file a, dir z gives dir a, dir z, file a, file b.
C10_ListingOrder ==
    ret.op = "Filelist" =>
        /\ Len(ret.val) = Len(arg)
        /\ {ret.val[i] : i \in 1..Len(ret.val)} = {arg[i] : i \in 1..Len(arg)}
        /\ \A i, j \in 1..Len(ret.val) :
              i < j => /\ ret.val[i].Type = typeFile => ret.val[j].Type = typeFile
                       /\ ret.val[i].Type = ret.val[j].Type
                             => StrLess(ret.val[i].Name, ret.val[j].Name)
        /\ arg = <<Entry("f", <<"b">>), Entry("d", <<"a">>),
                   Entry("f", <<"a">>), Entry("d", <<"z">>)>>
              => ret.val = <<Entry("d", <<"a">>), Entry("d", <<"z">>),
                             Entry("f", <<"a">>), Entry("f", <<"b">>)>>

C10_Witness ==
    /\ ret.op = "Filelist"
    /\ arg = <<Entry("f", <<"b">>), Entry("d", <<"a">>),
               Entry("f", <<"a">>), Entry("d", <<"z">>)>>
    /\ ret.val[1] = Entry("d", <<"a">>)
    /\ ret.val[4] = Entry("f", <<"b">>)

-----------------------------------------------------------------------------
(* GetFilelist on its own, against a directory of up to MaxEntries entries  *)
(* that the firmware reports PageSize entries at a time.                    *)

InitPage ==
    /\ arg \in {r \in Responses(MaxEntries) : Distinct(r)}
    /\ ret = NoResult
    /\ excls = <<>>
    /\ EngineIdle

\* rfm.GetFilelist(dir)
DoGetFilelist ==
    /\ ret = NoResult
    /\ LET fl == getFileListRecursively(arg, QueryEscape(Root), 0)
       IN ret' = [op |-> "GetFilelist", val |-> fl.Files, requests |-> fl.requests]
    /\ UNCHANGED <<arg, excls, engineVars>>

NextPage == DoGetFilelist

SpecPage == InitPage /\ [][NextPage]_vars

\* C11: GetFilelist returns one listing that holds every entry of the
\* directory exactly once, also when the firmware reports it in several pages;
\* the requests ask for index 0, then for each reported next index in turn.
C11_PaginationMerge ==
    ret.op = "GetFilelist" =>
        /\ Len(ret.val) = Len(arg)
        /\ {ret.val[i] : i \in 1..Len(ret.val)} = {arg[i] : i \in 1..Len(arg)}
        /\ \A k \in 1..Len(ret.requests) : ret.requests[k] = (k - 1) * PageSize
        /\ Len(ret.requests) * PageSize >= Len(arg)

-----------------------------------------------------------------------------
(* DeleteRecursive on its own, against remote trees of depth up to two.     *)

\* fmt.Sprint("%s/%s", fl.Dir, f.Name): Sprint does not format; it writes its
\* operands one after the other (no space between strings), the "%s/%s" first.
ChildPath(dir, name) == <<"%", "s", "/", "%", "s">> \o dir \o name

DirExists(r, path) == path = Root \/ (path \in DOMAIN r /\ r[path].Type = typeDirectory)

\* q is p or lies beneath p (remote paths)
RemoteUnder(p, q) ==
    q = p \/ (Len(q) > Len(p) /\ SubSeq(q, 1, Len(p) + 1) = p \o <<"/">>)

\* The directory a remote path lies in: the path up to its last slash.
RemoteParent(p) ==
    LET slashes == {i \in 1..Len(p) : p[i] = "/"}
    IN IF slashes = {} THEN <<>>
       ELSE SubSeq(p, 1, (CHOOSE i \in slashes : \A j \in slashes : j <= i) - 1)

\* What the firmware does on rr_delete?name=path: it removes the file or the
\* empty directory of exactly that name, and answers with an error otherwise.
CanDelete(r, path) ==
    /\ path \in DOMAIN r
    /\ r[path].Type = typeDirectory => RemoteChildren(r, path) = {}

\* What can happen to a request on its way: it is answered, it does not
\* reach the firmware, or the firmware acts on it and the answer is lost.
Transit == {"ok", "lost_request", "lost_answer"}

\* checkError(action, resp, err): the error of the request if there is one;
\* otherwise nil when the firmware answered {"err":0}.
CheckError(done, transit) ==
    IF transit # "ok" THEN "request_err" ELSE IF done THEN "nil" ELSE "failed"

\* rrffm.Delete(path)
Delete(r, path, transit) ==
    LET name == QueryUnescape(QueryEscape(path))
    IN [remote |-> IF transit # "lost_request" /\ CanDelete(r, name)
                   THEN [q \in DOMAIN r \ {name} |-> r[q]] ELSE r,
        err |-> CheckError(CanDelete(r, name), transit)]

\* What the firmware does on rr_mkdir?dir=path: it makes the directory when
\* nothing of that name exists and the directory it lies in does.
CanMkdir(r, path) == path \notin DOMAIN r /\ path # Root /\ DirExists(r, RemoteParent(path))

\* rrffm.Mkdir(path)
Mkdir(r, path, transit) ==
    LET dir == QueryUnescape(QueryEscape(path))
    IN [remote |-> IF transit # "lost_request" /\ CanMkdir(r, dir)
                   THEN (dir :> RemoteDir) @@ r ELSE r,
        err |-> CheckError(CanMkdir(r, dir), transit)]

\* What the firmware does on rr_move?old=..&new=..: it renames old to new
\* when old exists, nothing of the name new exists, the directory new lies in
\* exists and new does not lie in old; what is beneath old moves with it.
CanMove(r, old, new) ==
    /\ old \in DOMAIN r
    /\ new \notin DOMAIN r /\ new # Root
    /\ DirExists(r, RemoteParent(new))
    /\ ~RemoteUnder(old, new)

Moved(old, new, q) == IF RemoteUnder(old, q) THEN new \o SubSeq(q, Len(old) + 1, Len(q)) ELSE q

\* rrffm.Move(oldpath, newpath)
Move(r, oldpath, newpath, transit) ==
    LET old == QueryUnescape(QueryEscape(oldpath))
        new == QueryUnescape(QueryEscape(newpath))
    IN [remote |-> IF transit # "lost_request" /\ CanMove(r, old, new)
                   THEN [q \in {Moved(old, new, x) : x \in DOMAIN r} |->
                            r[CHOOSE x \in DOMAIN r : Moved(old, new, x) = q]]
                   ELSE r,
        err |-> CheckError(CanMove(r, old, new), transit)]

\* rrffm.MoveOverwrite(oldpath, newpath): Delete(newpath) first, and its
\* error, also that of a newpath that does not exist, is returned.
MoveOverwrite(r, oldpath, newpath, transit1, transit2) ==
    LET deleted == Delete(r, newpath, transit1)
    IN IF deleted.err # "nil" THEN deleted
       ELSE Move(deleted.remote, oldpath, newpath, transit2)

\* What the firmware does on rr_upload?name=path&time=..: it writes the file
\* when the directory it lies in exists and path is not a directory.
CanUpload(r, path) ==
    /\ path # Root
    /\ DirExists(r, RemoteParent(path))
    /\ path \in DOMAIN r => r[path].Type = typeFile

\* rrffm.Upload(path, content) at time now
Upload(r, path, content, now, transit) ==
    LET name == QueryUnescape(QueryEscape(path))
        file == [Type |-> typeFile, Date |-> now, Data |-> content]
    IN [remote |-> IF transit # "lost_request" /\ CanUpload(r, name)
                   THEN [q \in DOMAIN r \cup {name} |-> IF q = name THEN file ELSE r[q]]
                   ELSE r,
        err |-> CheckError(CanUpload(r, name), transit)]

\* What happens to the k-th request of a call: net names it for the first
\* requests, the later ones are answered.
NetAt(net, k) == IF k \in DOMAIN net THEN net[k] ELSE "ok"

\* for _, f := range fl.Files { rrffm.Delete(f.Name) }: the result of Delete
\* is dropped, and the name is the entry's name without its directory.
\* k is the number of the next request; the result names the one after the loop.
RECURSIVE DeleteFiles(_, _, _, _, _)
DeleteFiles(r, files, i, net, k) ==
    IF i > Len(files) THEN [remote |-> r, k |-> k]
    ELSE DeleteFiles(Delete(r, files[i].Name, NetAt(net, k)).remote, files, i + 1, net, k + 1)

\* rrffm.DeleteRecursive(path).  listFails: whether the firmware answers the
\* listing of a directory that does not exist with an error or with an empty
\* listing; order: the order in which the firmware reports the paths of the
\* card; net: what happens to the requests on their way, k: the number of
\* the next request.  The result is the remote tree afterwards, the error
\* returned and the number of the next request.
RECURSIVE DeleteRecursive(_, _, _, _, _, _)
RECURSIVE DeleteDirs(_, _, _, _, _, _, _)
DeleteDirs(r, fl, i, listFails, order, net, k) ==
    IF i > Len(fl.Files) \/ ~IsDir(fl.Files[i]) THEN [remote |-> r, err |-> "nil", k |-> k]
    ELSE LET c == DeleteRecursive(r, ChildPath(fl.Dir, fl.Files[i].Name),
                                  listFails, order, net, k)
         IN IF c.err # "nil" THEN c
            ELSE DeleteDirs(c.remote, fl, i + 1, listFails, order, net, c.k)

DeleteRecursive(r, path, listFails, order, net, k) ==
    IF NetAt(net, k) # "ok" THEN [remote |-> r, err |-> "request_err", k |-> k + 1]
    ELSE IF listFails /\ ~DirExists(r, path) THEN [remote |-> r, err |-> "list_err", k |-> k + 1]
    ELSE LET fl == GetFilelist(r, path, order)
             dirs == DeleteDirs(r, fl, 1, listFails, order, net, k + 1)
         IN IF dirs.err # "nil" THEN dirs
            ELSE LET files == DeleteFiles(dirs.remote, fl.Files, 1, net, dirs.k)
                 IN [remote |-> files.remote, err |-> "nil", k |-> files.k]

\* Remote trees: optional files a (dated 1 or later) and b, an optional
\* directory d with an optional file d/a and an optional directory d/e with an
\* optional file d/e/a.
DeleteTrees ==
    LET a == JoinRemote(Root, <<"a">>)
        b == JoinRemote(Root, <<"b">>)
        d == JoinRemote(Root, <<"d">>)
        da == JoinRemote(d, <<"a">>)
        de == JoinRemote(d, <<"e">>)
        dea == JoinRemote(de, <<"a">>)
        As == {EmptyTree} \cup {a :> RemoteFile(t) : t \in 1..(MaxTime + 1)}
        Bs == {EmptyTree, b :> RemoteFile(1)}
        DAs == {EmptyTree, da :> RemoteFile(1)}
        DEs == {EmptyTree, de :> RemoteDir, (de :> RemoteDir) @@ (dea :> RemoteFile(1))}
        Ds == {EmptyTree} \cup {(d :> RemoteDir) @@ x @@ y : x \in DAs, y \in DEs}
    IN {x @@ y @@ z : x \in As, y \in Bs, z \in Ds}

\* The paths the operations are called with: those of the trees, and a name
\* n that no tree has, in the root and in d.
CardPaths ==
    UNION {DOMAIN t : t \in DeleteTrees}
        \cup {JoinRemote(Root, <<"n">>), JoinRemote(JoinRemote(Root, <<"d">>), <<"n">>)}

InitDelete ==
    /\ remote \in DeleteTrees
    /\ arg = <<>>
    /\ ret = NoResult
    /\ excls = <<>>
    /\ fs = EmptyTree
    /\ removeLocal = FALSE
    /\ clock = 0
    /\ stack = <<>>
    /\ status = "idle"
    /\ run = 0
    /\ log = <<>>
    /\ last = NoStep

\* The result of an operation on the card.
Done(op, a, res) ==
    /\ arg' = a
    /\ remote' = res.remote
    /\ ret' = [op |-> op, err |-> res.err]
    /\ UNCHANGED <<excls, fs, removeLocal, clock, stack, status, run, log, last>>

\* rfm.DeleteRecursive(path): one listing of path, then for each entry of it
\* at most one listing and one deletion.  The directories it lists besides
\* path are not on the card, so the order of the entries of path is all of
\* the firmware's order that is needed.
DoDeleteRecursive ==
    /\ ret = NoResult
    /\ \E path \in {Root} \cup {q \in DOMAIN remote : remote[q].Type = typeDirectory},
          listFails \in BOOLEAN :
          \E order \in Enumerations(RemoteChildren(remote, path)) :
             \E net \in [1..(1 + 2 * Len(GetFilelist(remote, path, order).Files)) -> Transit] :
                Done("DeleteRecursive", [path |-> path, listFails |-> listFails],
                     DeleteRecursive(remote, path, listFails, order, net, 1))

\* rfm.Delete(path)
DoDelete ==
    /\ ret = NoResult
    /\ \E path \in CardPaths, transit \in Transit :
          Done("Delete", [path |-> path], Delete(remote, path, transit))

\* rfm.Mkdir(path)
DoMkdir ==
    /\ ret = NoResult
    /\ \E path \in CardPaths, transit \in Transit :
          Done("Mkdir", [path |-> path], Mkdir(remote, path, transit))

\* rfm.Move(oldpath, newpath)
DoMove ==
    /\ ret = NoResult
    /\ \E old \in CardPaths, new \in CardPaths, transit \in Transit :
          Done("Move", [path |-> old, newpath |-> new], Move(remote, old, new, transit))

\* rfm.MoveOverwrite(oldpath, newpath)
DoMoveOverwrite ==
    /\ ret = NoResult
    /\ \E old \in CardPaths, new \in CardPaths, transit1 \in Transit, transit2 \in Transit :
          Done("MoveOverwrite", [path |-> old, newpath |-> new],
               MoveOverwrite(remote, old, new, transit1, transit2))

\* rfm.Upload(path, content)
DoUpload ==
    /\ ret = NoResult
    /\ \E path \in CardPaths, now \in Times, transit \in Transit :
          Done("Upload", [path |-> path], Upload(remote, path, 2, now, transit))

NextDelete ==
    \/ DoDeleteRecursive
    \/ DoDelete
    \/ DoMkdir
    \/ DoMove
    \/ DoMoveOverwrite
    \/ DoUpload

SpecDelete == InitDelete /\ [][NextDelete]_vars

\* C13: after DeleteRecursive(path) has returned nil, neither path nor
\* anything beneath it exists on the remote any more.
C13_DeleteRecursiveRemovesAll ==
    (ret.op = "DeleteRecursive" /\ ret.err = "nil") =>
        \A q \in DOMAIN remote :
            /\ q # arg.path
            /\ ~(Len(q) > Len(arg.path) /\ SubSeq(q, 1, Len(arg.path) + 1) = arg.path \o <<"/">>)

-----------------------------------------------------------------------------
(* Properties of the engine *)

Events == {log[i] : i \in 1..Len(log)}

Frames == {stack[i] : i \in 1..Len(stack)}

\* A step of the engine was taken by the frame on top of the stack at pc.
StepAt(pc) == Running(pc) /\ stack' # stack

MarkerOf(dir) == JoinLocal(dir, dirMarker)

Excluded(path) == \E i \in 1..Len(excls) : StartsWith(path, excls[i])

\* C1: a second SyncFolder with the same arguments, after a first one that
\* returned nil, against the same remote tree and the local tree the first one
\* left, downloads nothing.
C1_SecondRunDownloadsNothing ==
    run = 2 => \A e \in Events : e.op # "fetch"

\* C2 as stated: with removeLocal, no local directory that lacks the marker
\* is ever deleted, wherever it lies in the local tree.
C2_NoUnmarkedDirectoryDeleted ==
    [][\A p \in DOMAIN fs :
          (removeLocal /\ fs[p].kind = "d" /\ MarkerOf(p) \notin DOMAIN fs)
              => p \in DOMAIN fs']_vars

\* C2 amended: what a step removes lies in one entry of the visited
\* directory that is a directory holding the marker and is not named in the
\* remote listing: that entry with everything beneath it when os.RemoveAll
\* succeeds, a part of what is beneath it when it fails; so a directory
\* without the marker that lies directly in the visited directory is never
\* deleted, and one deeper down disappears only within an enclosing
\* directory that has the marker.
C2_OnlyMarkedDirectoriesPruned ==
    [][(DOMAIN fs \ DOMAIN fs' # {}) =>
          /\ StepAt("prune")
          /\ removeLocal
          /\ \E q \in LocalChildren(fs, Top.outDir) :
                /\ fs[q].kind = "d"
                /\ MarkerOf(q) \in DOMAIN fs
                /\ q[Len(q)] \notin ExistingFiles(Top.fl)
                /\ DOMAIN fs \ DOMAIN fs' \subseteq {p \in DOMAIN fs : Under(q, p)}
                /\ last'.outcome = "ok" =>
                      DOMAIN fs \ DOMAIN fs' = {p \in DOMAIN fs : Under(q, p)}
                /\ last'.outcome # "ok" => q \in DOMAIN fs']_vars

\* An invocation whose pruning pass deleted something has returned, and a
\* directory without marker that the remote does not have is still there.
C2_Witness ==
    /\ removeLocal
    /\ status = "ok"
    /\ \E e \in Events : e.op = "remove"
    /\ \E p \in DOMAIN fs :
          /\ Len(p) = 1
          /\ fs[p].kind = "d"
          /\ MarkerOf(p) \notin DOMAIN fs
          /\ JoinRemote(Root, p[1]) \notin DOMAIN remote

\* C3: once the pruning pass of a visit is over, the visited directory holds
\* no regular file other than the marker, and no directory with the marker,
\* whose name is missing from the remote listing.
C3_OrphansRemoved ==
    \A fr \in Frames :
        (removeLocal /\ fr.pc = "descend") =>
            \A q \in LocalChildren(fs, fr.outDir) :
                \/ q[Len(q)] \in ExistingFiles(fr.fl)
                \/ q[Len(q)] = dirMarker
                \/ fs[q].kind = "d" /\ MarkerOf(q) \notin DOMAIN fs

\* C4: when the loop of updateLocalFiles reaches a file entry that is not
\* excluded and whose local stat does not fail, it calls Download exactly when
\* the local file is absent or its mtime is strictly before the entry's date;
\* otherwise nothing is fetched and nothing is written.
C4_DownloadTrigger ==
    [][(StepAt("update") /\ last'.outcome \notin {"excluded", "stat_err"}) =>
          LET file == Top.fl.Files[Top.idx]
              fileName == JoinLocal(Top.outDir, file.Name)
              outdated == fileName \notin DOMAIN fs \/ fs[fileName].mtime < file.Date
              fetched == /\ Len(log') > Len(log)
                         /\ log'[Len(log) + 1] =
                               Ev("fetch", JoinRemote(Top.folder, file.Name), fileName)
          IN /\ fetched <=> outdated
             /\ ~outdated => (fs' = fs /\ log' = log)]_vars

\* A local file whose mtime equals the remote date was found up to date.
C4_Witness ==
    /\ last.op = "update"
    /\ last.outcome = "uptodate"
    /\ fs[last.lpath].mtime = remote[last.rpath].Date
    /\ \A e \in Events : e.op # "fetch"

\* C5: SyncFolder of an excluded path returns nil at once and changes
\* nothing; no listing, download or local change of an invocation concerns an
\* excluded remote path, and nothing at or beneath the local directory of an
\* excluded call is created, written or removed.
C5_ExclusionShortCircuit ==
    /\ [](/\ \A e \in Events : e.op # "excluded" => ~Excluded(e.rpath)
          /\ \A e \in Events : e.op = "excluded" =>
                \A i \in 1..Len(log) :
                    (log[i] # e /\ log[i].op \in {"mkdir", "marker", "write", "remove"})
                        => ~Under(e.lpath, log[i].lpath))
    /\ [][(StepAt("enter") /\ Excluded(Top.folder)) =>
             /\ fs' = fs
             /\ stack' = Tail(stack)
             /\ status' # "error"
             /\ \A e \in Events' : e.op \notin {"list", "fetch"} \/ e \in Events]_vars

\* An excluded subdirectory was reached through the recursion and skipped,
\* and the run went on to finish.
C5_Witness ==
    /\ status = "ok"
    /\ \E e \in Events : e.op = "excluded" /\ Len(e.lpath) = 1
    /\ \E e \in Events : e.op = "fetch"

\* C6: after an invocation that returned nil, every file it downloaded holds
\* the bytes Download returned, has the remote entry's date as its mtime, and
\* lies in a directory that holds the marker.
C6_DownloadPostCondition ==
    (status = "ok" /\ run = 1) =>
        \A e \in Events : e.op = "fetch" =>
            /\ e.lpath \in DOMAIN fs
            /\ fs[e.lpath].data = remote[e.rpath].Data
            /\ fs[e.lpath].mtime = remote[e.rpath].Date
            /\ MarkerOf(Parent(e.lpath)) \in DOMAIN fs

\* C7: every failure of Filelist, Download or a local file system operation,
\* other than the stat inside isManagedDirectory, makes the top-level
\* SyncFolder return an error; after an error nothing more is listed,
\* downloaded, written or deleted.
C7_ErrorPropagation ==
    [][/\ (stack' # stack /\ last'.op # "skip" /\
              last'.outcome \in {"list_err", "stat_err", "mkdir_err", "marker_err",
                                 "download_err", "create_err", "write_err", "chtimes_err",
                                 "readdir_err", "remove_err"})
          => (status' = "error" /\ stack' = <<>>)
       /\ status = "error" => (fs' = fs /\ log' = log /\ status' = "error")]_vars

\* C8: isManagedDirectory is true exactly when the entry is a directory, the
\* marker exists inside it and the stat of the marker did not fail; a failing
\* stat gives false and the pruning pass goes on without an error.
C8_ManagedDirectoryCheck ==
    [][(StepAt("prune") /\ last'.op \in {"skip", "remove"}) =>
          LET child == JoinLocal(Top.outDir, Top.files[Top.idx].Name)
              statErr == last'.op = "skip" /\ last'.outcome = "stat_err"
          IN /\ last'.managed = (/\ child \in DOMAIN fs
                                 /\ fs[child].kind = "d"
                                 /\ MarkerOf(child) \in DOMAIN fs
                                 /\ ~statErr)
             /\ statErr => (~last'.managed /\ status' = "running" /\ fs' = fs)]_vars

\* The stat of the marker of a directory that has one failed: the directory
\* was taken as not managed and kept.
C8_Witness ==
    /\ last.op = "skip"
    /\ last.outcome = "stat_err"
    /\ ~last.managed
    /\ MarkerOf(last.lpath) \in DOMAIN fs
    /\ status = "running"

\* C12: when Connect fails the process ends by reporting the remote as not
\* available with exit status 0 (status "unavailable"): the failing step leaves
\* the local tree as it is, no SyncFolder has been or will be started, nothing
\* has been listed, fetched, written or removed, and no step follows.
C12_ConnectFailure ==
    /\ [](status = "unavailable"
            => (run = 0 /\ log = <<>> /\ stack = <<>> /\ last.op = "connect"
                /\ last.outcome = "connect_err"))
    /\ [][/\ (status = "idle" /\ last'.outcome = "connect_err")
                 => (status' = "unavailable" /\ fs' = fs /\ log' = log /\ stack' = <<>>
                     /\ run' = run)
          /\ (status = "unavailable")
                 => (fs' = fs /\ log' = log /\ stack' = stack /\ status' = status
                     /\ run' = run)]_vars

\* A failed connect while there is a remote file to fetch and a local file.
C12_Witness ==
    /\ status = "unavailable"
    /\ last.op = "connect"
    /\ last.outcome = "connect_err"
    /\ \E p \in DOMAIN remote : remote[p].Type = typeFile
    /\ \E p \in DOMAIN fs : fs[p].kind = "f"

\* The directory visit an event of the log belongs to, by its local directory.
VisitOf(e) == IF e.op \in {"list", "mkdir", "excluded"} THEN e.lpath ELSE Parent(e.lpath)

\* The phase of its visit an event belongs to: the listing, the local
\* directory, the marker, the downloads, the removals.
PhaseOf(e) ==
    CASE e.op \in {"list", "excluded"} -> 1
      [] e.op = "mkdir" -> 2
      [] e.op = "marker" -> 3
      [] e.op \in {"fetch", "write"} -> 4
      [] e.op = "remove" -> 5

\* The indices of the events a step appends to the log.
NewEvents == (Len(log) + 1)..Len(log')

\* The pc a frame at pc p may have after its next step.
PcNext(p, q) ==
    LET after == IF removeLocal THEN "readdir" ELSE "descend"
    IN CASE p = "enter" -> q = "ensure"
         [] p \in {"ensure", "update"} -> q \in {"update", after}
         [] p \in {"readdir", "prune"} -> q \in {"prune", "descend"}
         [] p = "descend" -> FALSE

RemoteDirs == {Root} \cup {q \in DOMAIN remote : remote[q].Type = typeDirectory}

\* C16: an invocation that returned nil has listed the root and every
\* directory that no exclusion covers exactly once, and nothing else.
C16_ExactlyOnceTraversal ==
    status = "ok" =>
        /\ \A q \in RemoteDirs :
              Cardinality({i \in 1..Len(log) : log[i].op = "list" /\ log[i].rpath = q})
                  = IF Excluded(q) THEN 0 ELSE 1
        /\ \A e \in Events : e.op = "list" => e.rpath \in RemoteDirs

\* C17: a marker that exists leaves the local tree only when a removal of
\* removeDeletedFiles deletes a directory above it, one that lies below the
\* directory the pass works on; the marker of that directory itself stays.
C17_MarkerLifetime ==
    [][/\ \A p \in DOMAIN fs :
            (/\ Len(p) > 0 /\ p[Len(p)] = dirMarker /\ fs[p].kind = "f"
             /\ p \notin DOMAIN fs') =>
                /\ StepAt("prune")
                /\ last'.op = "remove" /\ last'.outcome = "ok"
                /\ Parent(last'.lpath) = Top.outDir
                /\ fs[last'.lpath].kind = "d"
                /\ Under(last'.lpath, Parent(p))
       /\ (StepAt("readdir") \/ StepAt("prune")) =>
            (MarkerOf(Top.outDir) \in DOMAIN fs /\ MarkerOf(Top.outDir) \in DOMAIN fs')]_vars

\* C18: when the listing of a directory has succeeded and ensureOutDirExists
\* has not failed, the local directory exists and holds the marker, whether
\* the visit created the directory or found it, with or without a marker;
\* this stays so for the rest of the visit and of the invocation.
C18_Adoption ==
    /\ [](/\ \A e \in Events : e.op = "marker" =>
                /\ Parent(e.lpath) \in DOMAIN fs /\ fs[Parent(e.lpath)].kind = "d"
                /\ e.lpath \in DOMAIN fs /\ fs[e.lpath].kind = "f"
          /\ \A fr \in Frames : fr.pc \notin {"enter", "ensure"} =>
                /\ fr.outDir \in DOMAIN fs
                /\ MarkerOf(fr.outDir) \in DOMAIN fs)
    /\ [][(StepAt("ensure") /\ last'.outcome = "ok") =>
             /\ Top.outDir \in DOMAIN fs' /\ fs'[Top.outDir].kind = "d"
             /\ MarkerOf(Top.outDir) \in DOMAIN fs'
             /\ fs'[MarkerOf(Top.outDir)].kind = "f"
             /\ log'[Len(log')] = Ev("marker", Top.folder, MarkerOf(Top.outDir))]_vars

\* The first invocation found the local directory d, which had no marker,
\* did not have to create it, and has put the marker into it.
C18_Witness ==
    /\ run = 1
    /\ last.op = "ensure" /\ last.outcome = "ok" /\ last.lpath = <<<<"d">>>>
    /\ \A e \in Events : ~(e.op = "mkdir" /\ e.lpath = last.lpath)
    /\ MarkerOf(last.lpath) \in DOMAIN fs

\* C19: when the listing of a directory fails, nothing has been created,
\* marked, written or removed in the local directory that belongs to it, the
\* local tree is as it was before the call, and the whole invocation ends
\* with the error: every frame is gone and nothing happens after it.
C19_ListingFailure ==
    [][/\ (StepAt("enter") /\ last'.outcome = "list_err") =>
             /\ fs' = fs
             /\ \A e \in Events' : VisitOf(e) = Top.outDir => e.op = "list"
             /\ stack' = <<>>
             /\ status' = "error"
       /\ status = "error" => (fs' = fs /\ log' = log /\ stack' = stack /\ status' = status)]_vars

\* The listing of the subdirectory d failed after the root had been dealt
\* with, and its sibling f is left unvisited.
C19_Witness ==
    /\ status = "error"
    /\ last.op = "enter" /\ last.outcome = "list_err" /\ last.lpath = <<<<"d">>>>
    /\ JoinRemote(Root, <<"f">>) \in DOMAIN remote
    /\ \E e \in Events : e.op = "marker"

\* C20: with removeLocal false no step takes a path out of the local tree:
\* the local paths after a step include those before it.
C20_NoDeletionWithoutFlag ==
    [][~removeLocal => (DOMAIN fs \subseteq DOMAIN fs' /\ \A e \in Events' : e.op # "remove")]_vars

\* An invocation without removeLocal returned nil, wrote a file, and the
\* local entry o, which the remote does not have, is still there.
C20_Witness ==
    /\ status = "ok" /\ ~removeLocal
    /\ \E e \in Events : e.op = "write"
    /\ <<<<"o">>>> \in DOMAIN fs

\* C21: in the visit of a folder, the remote path of an entry that is tested
\* against the exclusions and fetched, and the folder of the recursive call
\* for a directory entry, is the folder of the visit, a slash, and the
\* entry's name.
C21_RemotePathConstruction ==
    [][/\ StepAt("update") =>
            LET path == Top.folder \o <<"/">> \o Top.fl.Files[Top.idx].Name
            IN /\ last'.rpath = path
               /\ (last'.outcome = "excluded") = Contains(excls, path)
               /\ \A k \in NewEvents : log'[k].rpath = path
       /\ (StepAt("descend") /\ Len(stack') = Len(stack) + 1) =>
            /\ IsDir(Top.fl.Files[Top.idx])
            /\ Head(stack').folder = Top.folder \o <<"/">> \o Top.fl.Files[Top.idx].Name
            /\ last'.rpath = Head(stack').folder]_vars

\* In the visit of the subdirectory d its file a was fetched as 0:/sys/d/a
\* and its subdirectory e was visited as 0:/sys/d/e.
C21_Witness ==
    /\ \E e \in Events : e.op = "fetch" /\ e.rpath = Root \o <<"/", "d", "/", "a">>
    /\ \E e \in Events : e.op = "list" /\ e.rpath = Root \o <<"/", "d", "/", "e">>

\* The positions of s that are not a slash right after a slash.
Kept(s) == {i \in 1..Len(s) : ~(s[i] = "/" /\ i > 1 /\ s[i - 1] = "/")}

\* s with every run of slashes reduced to its first slash.
Collapsed(s) ==
    [k \in 1..Cardinality(Kept(s)) |->
        s[CHOOSE i \in Kept(s) : Cardinality({j \in Kept(s) : j <= i}) = k]]

\* A string without two slashes in a row and without a slash at its end.
NormalForm(s) ==
    /\ \A i \in 1..(Len(s) - 1) : ~(s[i] = "/" /\ s[i + 1] = "/")
    /\ s = <<>> \/ s[Len(s)] # "/"

\* C22: CleanPath gives its input with every run of slashes collapsed to one
\* slash and one slash at the end removed; the result has no two slashes in a
\* row and no slash at its end; CleanPath of the result is the result; and
\* every prefix that Set has stored is of that form.
C22_PrefixNormalization ==
    /\ ret.op = "Set" =>
          LET c == Collapsed(arg)
              stored == excls[Len(excls)]
          IN /\ stored = CleanPath(arg)
             /\ stored = IF c # <<>> /\ c[Len(c)] = "/" THEN SubSeq(c, 1, Len(c) - 1) ELSE c
             /\ CleanPath(stored) = stored
    /\ ret.op = "Contains" => (NormalForm(CleanPath(arg)) /\
                                 CleanPath(CleanPath(arg)) = CleanPath(arg))
    /\ \A i \in 1..Len(excls) : NormalForm(excls[i])

\* Set has stored "a" for the value "a//": a run collapsed and the slash at
\* the end removed.
C22_Witness ==
    /\ ret.op = "Set"
    /\ arg = <<"a", "/", "/">>
    /\ excls[Len(excls)] = <<"a">>

====
